---- MODULE Spec2Model ----
(***************************************************************************)
(* juice.css demo page scripts: the theme state controller in its two      *)
(* implementations (src/demo/theme-switcher.ts: data-theme attribute and a *)
(* select; src/theme-switcher.ts: inline custom properties and three       *)
(* buttons), the copy-button widget (copy-button.ts), the dialog controls   *)
(* (src/demo/dialog.ts), the raw/styled toggle (src/raw-toggle.ts and the   *)
(* copy in src/theme-switcher.ts) and the build scripts (scripts/build.ts). *)
(***************************************************************************)
EXTENDS Integers, Sequences, FiniteSets, TLC

VARIABLES
    variant,        \* which theme-switcher script the page loads: "attr" | "inline"
    elements,       \* theme controls present in the document (by theme name, or "select")
    pc,             \* page life cycle of the theme script: "parsing" | "waiting" | "ready"
    localStorage,   \* origin storage: a function from keys to strings
    dataTheme,      \* documentElement's data-theme attribute (Null: absent)
    selectValue,    \* #theme-select .value
    rootStyle,      \* documentElement.style: function from property names to values
    btnStyle,       \* #btn-<t> .style: [opacity, fontWeight] per button
    listeners,      \* number of listeners attached per theme control
    \* history of the most recent handler, and of the sessions
    lastOp,         \* "none" | "script" | "init" | "change" | "click" | "reload"
    storageLog,     \* storage calls made by the most recent handler
    applyCalls,     \* arguments of the setTheme calls made by the most recent handler
    savedRead,      \* the value init() read from storage (NotRead outside init)
    lsBefore,       \* the entry under "theme" before the most recent handler
    sessionTheme,   \* argument of the last setTheme call of this page session ("none": no call)
    carried,        \* the previous page session: its last setTheme and what it left
    origStored,     \* the entry under "theme" before the first page load
    interacted,     \* some theme control was used since the first page load
    \* copy-button widget
    copyPc,         \* life cycle of the copy-button script: "parsing" | "waiting" | "ready"
    blockText,      \* textContent of each <pre><code> block
    button,         \* the injected button of each block: [textContent, copied, opacity]
    pointer,        \* the block whose wrapper the pointer is in (0: none)
    clipboard,      \* the system clipboard's text
    pending,        \* navigator.clipboard.writeText calls not settled yet
    timers,         \* setTimeout callbacks not run yet, in the order they were set
    clicks,         \* copy-button clicks so far
    lastCopyOp,     \* the most recent copy-widget step and what it acted on
    injected,       \* number of copy buttons addCopyButtons has put into each block
    \* dialog controls
    dlgPc,          \* life cycle of the dialog script: "parsing" | "waiting" | "ready"
    dlgElements,    \* which of #demo-dialog, #open-dialog, #close-dialog the document has
    dialogOpen,     \* the dialog is shown (modal)
    dlgListeners,   \* number of click listeners per dialog element
    lastDlgOp,      \* the most recent dialog step: what was clicked, the state before
    \* raw/styled toggle
    rawScript,      \* which initRawToggle the page runs: "raw-toggle" | "theme-switcher"
    hostname,       \* location.hostname
    rawPc,          \* life cycle of the toggle script: "parsing" | "waiting" | "ready"
    rawBtn,         \* #toggle-raw: [present, display, textContent], or NoElement
    isRaw,          \* the closure variable isRaw
    sheets,         \* the link[rel=stylesheet] and style elements in document order:
                    \* a sequence of [kind, disabled]
    allStyles,      \* the indices of the sheets initRawToggle's querySelectorAll found
    rawListeners,   \* number of click listeners on #toggle-raw
    rawClicks,      \* clicks on #toggle-raw since the page was loaded
    lastRawOp,      \* the most recent toggle step
    \* build script
    buildScript,    \* which build script runs
    lightVars,      \* src/variables-light.css
    darkVars,       \* src/variables-dark.css
    base,           \* src/base.css
    indexHTML,      \* src/index.html
    buildPc,        \* where the run is: "start" | "mkdir" | "read" | "css" | "html" |
                    \* "switcher" | "done" | "failed"
    written,        \* the files this run has written: function from path to content
    \* the two theme implementations side by side
    twin            \* a second document, run by src/theme-switcher.ts (buttons), that
                    \* receives the same operations as the first one, run by
                    \* src/demo/theme-switcher.ts (select): [ls, dataTheme, selectValue,
                    \* rootStyle, btnStyle, log, calls]

themeVars == <<variant, elements, pc, localStorage, dataTheme, selectValue, rootStyle,
               btnStyle, listeners, lastOp, storageLog, applyCalls, savedRead, lsBefore,
               sessionTheme, carried, origStored, interacted>>

copyVars == <<copyPc, blockText, button, pointer, clipboard, pending, timers, clicks,
              lastCopyOp, injected>>

dialogVars == <<dlgPc, dlgElements, dialogOpen, dlgListeners, lastDlgOp>>

rawVars == <<rawScript, hostname, rawPc, rawBtn, isRaw, sheets, allStyles, rawListeners,
             rawClicks, lastRawOp>>

buildVars == <<buildScript, lightVars, darkVars, base, indexHTML, buildPc, written>>

\* what each component leaves alone
notThemeVars == <<copyVars, dialogVars, rawVars, buildVars, twin>>
notCopyVars == <<themeVars, dialogVars, rawVars, buildVars, twin>>
notDialogVars == <<themeVars, copyVars, rawVars, buildVars, twin>>
notRawVars == <<themeVars, copyVars, dialogVars, buildVars, twin>>
notBuildVars == <<themeVars, copyVars, dialogVars, rawVars, twin>>

----------------------------------------------------------------------------
(* Values *)

\* JavaScript null (getItem of a missing key, getAttribute of a missing attribute)
Null == "<null>"
\* history value: init() has not read storage in the most recent handler
NotRead == "<not read>"

\* type Theme = "auto" | "light" | "dark"
Themes == {"auto", "light", "dark"}

\* the options of #theme-select, one per theme (document markup contract)
SelectOptions == Themes

\* values the entry under "theme" may hold before the first page load
InitialStored == {Null, "auto", "light", "dark", "blue", ""}

\* const lightTheme: ThemeVars
lightTheme ==
    ("--background-body" :> "#ffffff") @@ ("--background" :> "#f5f5f7") @@
    ("--background-alt" :> "#ffffff") @@ ("--selection" :> "rgba(0, 122, 255, 0.2)") @@
    ("--text-main" :> "#1d1d1f") @@ ("--text-bright" :> "#000000") @@
    ("--text-muted" :> "#86868b") @@ ("--links" :> "#007aff") @@
    ("--focus" :> "rgba(0, 122, 255, 0.4)") @@ ("--border" :> "#d2d2d7") @@
    ("--code" :> "#ff3b30") @@ ("--button-base" :> "#007aff") @@
    ("--button-hover" :> "#0051d5") @@ ("--scrollbar-thumb" :> "#d2d2d7") @@
    ("--scrollbar-thumb-hover" :> "#86868b") @@ ("--form-placeholder" :> "#86868b") @@
    ("--form-text" :> "#1d1d1f") @@ ("--variable" :> "#34c759") @@
    ("--highlight" :> "rgba(255, 214, 10, 0.5)") @@ ("--button-text" :> "#ffffff") @@
    ("--slider-thumb" :> "#ffffff") @@ ("--success" :> "#34c759") @@
    ("--warning" :> "#ff9500") @@ ("--error" :> "#ff3b30")

\* const darkTheme: ThemeVars
darkTheme ==
    ("--background-body" :> "#000000") @@ ("--background" :> "#1c1c1e") @@
    ("--background-alt" :> "#2c2c2e") @@ ("--selection" :> "rgba(10, 132, 255, 0.3)") @@
    ("--text-main" :> "#f5f5f7") @@ ("--text-bright" :> "#ffffff") @@
    ("--text-muted" :> "#8e8e93") @@ ("--links" :> "#0a84ff") @@
    ("--focus" :> "rgba(10, 132, 255, 0.5)") @@ ("--border" :> "#38383a") @@
    ("--code" :> "#ff453a") @@ ("--button-base" :> "#0a84ff") @@
    ("--button-hover" :> "#409cff") @@ ("--scrollbar-thumb" :> "#48484a") @@
    ("--scrollbar-thumb-hover" :> "#636366") @@ ("--form-placeholder" :> "#8e8e93") @@
    ("--form-text" :> "#f5f5f7") @@ ("--variable" :> "#30d158") @@
    ("--highlight" :> "rgba(255, 214, 10, 0.4)") @@ ("--button-text" :> "#ffffff") @@
    ("--slider-thumb" :> "#ffffff") @@ ("--success" :> "#30d158") @@
    ("--warning" :> "#ff9f0a") @@ ("--error" :> "#ff453a")

\* the empty function: an empty storage, an element with no inline style
Empty == [k \in {} |-> ""]

----------------------------------------------------------------------------
(* Web platform primitives the scripts call *)

\* Storage.getItem(key)
getItem(ls, key) == IF key \in DOMAIN ls THEN ls[key] ELSE Null

\* Storage.setItem(key, value)
setItem(ls, key, value) ==
    [k \in DOMAIN ls \cup {key} |-> IF k = key THEN value ELSE ls[k]]

\* Storage.removeItem(key)
removeItem(ls, key) == [k \in DOMAIN ls \ {key} |-> ls[k]]

\* a setProperty that leaves a property alone once it has a value
setProperties_keepExisting(style, vars) ==
    [k \in DOMAIN style \cup DOMAIN vars |-> IF k \in DOMAIN style THEN style[k] ELSE vars[k]]

\* CSSStyleDeclaration.setProperty(key, value) for every entry of vars
setProperties(style, vars) ==
    [k \in DOMAIN style \cup DOMAIN vars |-> IF k \in DOMAIN vars THEN vars[k] ELSE style[k]]

\* a removal that leaves the inline style as it is
removeProperties_none(style, vars) == style

\* CSSStyleDeclaration.removeProperty(key) for every key of vars
removeProperties(style, vars) == [k \in DOMAIN style \ DOMAIN vars |-> style[k]]

\* HTMLSelectElement.value = v: selects the option with that value, none ("") otherwise
assignSelectValue(v) == IF v \in SelectOptions THEN v ELSE ""

\* a JavaScript string-or-null is truthy unless it is null or ""
Truthy(s) == s /= Null /\ s /= ""

----------------------------------------------------------------------------
(* The handlers work on an environment record holding what they can touch:
   ls, dataTheme, selectValue, rootStyle, btnStyle, and the two call logs. *)

Env ==
    [ls |-> localStorage, dataTheme |-> dataTheme, selectValue |-> selectValue,
     rootStyle |-> rootStyle, btnStyle |-> btnStyle,
     log |-> <<>>, calls |-> <<>>]

\* updateSelect that skips the write for "auto" (relies on the markup's default)
updateSelect_skipAuto(theme, e) ==
    IF "select" \in elements /\ theme /= "auto"
    THEN [e EXCEPT !.selectValue = assignSelectValue(theme)]
    ELSE e

\* src/demo/theme-switcher.ts: updateSelect(theme)
updateSelect(theme, e) ==
    IF "select" \in elements
    THEN [e EXCEPT !.selectValue = assignSelectValue(theme)]
    ELSE e

\* setTheme that marks the document but does not persist an explicit theme
setTheme_noPersist(theme, e) ==
    LET e1 == [e EXCEPT !.calls = Append(@, theme)]
        e2 == IF theme = "auto"
              THEN [e1 EXCEPT !.dataTheme = Null,
                              !.ls = removeItem(@, "theme"),
                              !.log = Append(@, <<"removeItem", "theme">>)]
              ELSE [e1 EXCEPT !.dataTheme = theme]
    IN  updateSelect(theme, e2)

\* setTheme that persists the literal for every theme, "auto" included
setTheme_storesAuto(theme, e) ==
    LET e1 == [e EXCEPT !.calls = Append(@, theme)]
        e2 == IF theme = "auto"
              THEN [e1 EXCEPT !.dataTheme = Null,
                              !.ls = setItem(@, "theme", theme),
                              !.log = Append(@, <<"setItem", "theme", theme>>)]
              ELSE [e1 EXCEPT !.dataTheme = theme,
                              !.ls = setItem(@, "theme", theme),
                              !.log = Append(@, <<"setItem", "theme", theme>>)]
    IN  updateSelect(theme, e2)

\* src/demo/theme-switcher.ts: setTheme(theme)
setTheme(theme, e) ==
    LET e1 == [e EXCEPT !.calls = Append(@, theme)]
        e2 == IF theme = "auto"
              THEN [e1 EXCEPT !.dataTheme = Null,
                              !.ls = removeItem(@, "theme"),
                              !.log = Append(@, <<"removeItem", "theme">>)]
              ELSE [e1 EXCEPT !.dataTheme = theme,
                              !.ls = setItem(@, "theme", theme),
                              !.log = Append(@, <<"setItem", "theme", theme>>)]
    IN  updateSelect(theme, e2)

\* init whose list of valid themes lacks "dark"
init_noDark(e) ==
    LET saved == getItem(e.ls, "theme")
    IN  IF Truthy(saved) /\ saved \in {"auto", "light"}
        THEN setTheme(saved, e)
        ELSE updateSelect("auto", e)

\* init that applies "auto" through setTheme when nothing valid is saved
init_appliesAuto(e) ==
    LET saved == getItem(e.ls, "theme")
    IN  IF Truthy(saved) /\ saved \in {"auto", "light", "dark"}
        THEN setTheme(saved, e)
        ELSE setTheme("auto", e)

\* src/demo/theme-switcher.ts: init(), up to the listener registration
init(e) ==
    LET saved == getItem(e.ls, "theme")
    IN  IF Truthy(saved) /\ saved \in {"auto", "light", "dark"}
        THEN setTheme(saved, e)
        ELSE updateSelect("auto", e)

\* updateButtons that marks the active button and leaves the others as they are
updateButtons_noReset(theme, e) ==
    [e EXCEPT !.btnStyle =
        [t \in DOMAIN @ |->
            IF t = theme THEN [opacity |-> "1", fontWeight |-> "600"] ELSE @[t]]]

\* src/theme-switcher.ts: updateButtons(theme)
updateButtons(theme, e) ==
    [e EXCEPT !.btnStyle =
        [t \in DOMAIN @ |->
            [opacity |-> IF t = theme THEN "1" ELSE "0.6",
             fontWeight |-> IF t = theme THEN "600" ELSE "normal"]]]

\* setTheme (inline variant) that persists the literal for every theme
setThemeInline_storesAuto(theme, e) ==
    LET e1 == [e EXCEPT !.calls = Append(@, theme)]
        e2 == IF theme = "auto"
              THEN [e1 EXCEPT !.rootStyle = removeProperties(@, lightTheme),
                              !.ls = setItem(@, "theme", theme),
                              !.log = Append(@, <<"setItem", "theme", theme>>)]
              ELSE [e1 EXCEPT !.rootStyle =
                                  setProperties(@, IF theme = "light" THEN lightTheme
                                                                      ELSE darkTheme),
                              !.ls = setItem(@, "theme", theme),
                              !.log = Append(@, <<"setItem", "theme", theme>>)]
    IN  updateButtons(theme, e2)

\* src/theme-switcher.ts: setTheme(theme)
setThemeInline(theme, e) ==
    LET e1 == [e EXCEPT !.calls = Append(@, theme)]
        e2 == IF theme = "auto"
              THEN [e1 EXCEPT !.rootStyle = removeProperties(@, lightTheme),
                              !.ls = removeItem(@, "theme"),
                              !.log = Append(@, <<"removeItem", "theme">>)]
              ELSE [e1 EXCEPT !.rootStyle =
                                  setProperties(@, IF theme = "light" THEN lightTheme
                                                                      ELSE darkTheme),
                              !.ls = setItem(@, "theme", theme),
                              !.log = Append(@, <<"setItem", "theme", theme>>)]
    IN  updateButtons(theme, e2)

\* init (inline variant) that applies whatever truthy value is saved
initInline_noValidation(e) ==
    LET saved == getItem(e.ls, "theme")
    IN  IF Truthy(saved)
        THEN setThemeInline(saved, e)
        ELSE updateButtons("auto", e)

\* init (inline variant) that applies "auto" through setTheme when nothing valid is saved
initInline_appliesAuto(e) ==
    LET saved == getItem(e.ls, "theme")
    IN  IF Truthy(saved) /\ saved \in {"auto", "light", "dark"}
        THEN setThemeInline(saved, e)
        ELSE setThemeInline("auto", e)

\* src/theme-switcher.ts: init(), up to the listener registration
initInline(e) ==
    LET saved == getItem(e.ls, "theme")
    IN  IF Truthy(saved) /\ saved \in {"auto", "light", "dark"}
        THEN setThemeInline(saved, e)
        ELSE updateButtons("auto", e)

\* the listeners init() registers: optional chaining skips a missing element
attachListeners(ls) == [c \in DOMAIN ls |-> IF c \in elements THEN ls[c] + 1 ELSE ls[c]]

----------------------------------------------------------------------------
(* What the document shows *)

\* the explicit theme override on the document root: "dark", "light", "none",
\* or "other" for anything else
Override ==
    IF variant = "attr"
    THEN CASE dataTheme = Null -> "none"
           [] dataTheme \in {"light", "dark"} -> dataTheme
           [] OTHER -> "other"
    ELSE CASE rootStyle = Empty -> "none"
           [] rootStyle = lightTheme -> "light"
           [] rootStyle = darkTheme -> "dark"
           [] OTHER -> "other"

\* a theme button is marked active
Active(t) == btnStyle[t].opacity = "1" /\ btnStyle[t].fontWeight = "600"

\* the theme controls marked active or selected
ActiveControls ==
    IF variant = "attr"
    THEN IF "select" \in elements THEN {selectValue} ELSE {}
    ELSE {t \in DOMAIN btnStyle : Active(t)}

\* the theme controls init() looks up: #theme-select, or #btn-auto, #btn-light, #btn-dark
ThemeControls == IF variant = "attr" THEN {"select"} ELSE Themes

\* the document holds every theme control of the markup contract
ControlsPresent ==
    IF variant = "attr" THEN "select" \in elements ELSE elements = Themes

\* the entry under key "theme"
Stored == getItem(localStorage, "theme")

----------------------------------------------------------------------------
(* Actions of the theme controller *)

Commit(e) ==
    /\ localStorage' = e.ls
    /\ dataTheme' = e.dataTheme
    /\ selectValue' = e.selectValue
    /\ rootStyle' = e.rootStyle
    /\ btnStyle' = e.btnStyle
    /\ storageLog' = e.log
    /\ applyCalls' = e.calls
    /\ lsBefore' = Stored
    /\ sessionTheme' = IF e.calls = <<>> THEN sessionTheme ELSE e.calls[Len(e.calls)]

\* init() as the page runs it: the branch on the saved value, then the listeners
RunInit ==
    /\ Commit(IF variant = "attr" THEN init(Env) ELSE initInline(Env))
    /\ listeners' = attachListeners(listeners)
    /\ savedRead' = Stored
    /\ lastOp' = "init"
    /\ pc' = "ready"
    /\ UNCHANGED <<variant, elements, carried, origStored, interacted>>
    /\ UNCHANGED notThemeVars

\* a bootstrap that registers init for DOMContentLoaded and also runs it at once
ScriptWhileLoading_alsoInit ==
    /\ pc = "parsing"
    /\ Commit(IF variant = "attr" THEN init(Env) ELSE initInline(Env))
    /\ listeners' = attachListeners(listeners)
    /\ savedRead' = Stored
    /\ lastOp' = "init"
    /\ pc' = "waiting"
    /\ UNCHANGED <<variant, elements, carried, origStored, interacted>>
    /\ UNCHANGED notThemeVars

\* the script is evaluated while document.readyState is "loading"
ScriptWhileLoading ==
    /\ pc = "parsing"
    /\ pc' = "waiting"
    /\ lastOp' = "script"
    /\ storageLog' = <<>>
    /\ applyCalls' = <<>>
    /\ savedRead' = NotRead
    /\ lsBefore' = Stored
    /\ UNCHANGED <<variant, elements, localStorage, dataTheme, selectValue, rootStyle,
                   btnStyle, listeners, sessionTheme, carried, origStored, interacted>>
    /\ UNCHANGED notThemeVars

\* the script is evaluated after the document was parsed: init() runs at once
ScriptAfterLoad ==
    /\ pc = "parsing"
    /\ RunInit

\* the DOMContentLoaded listener runs init()
DOMContentLoaded ==
    /\ pc = "waiting"
    /\ RunInit

\* the user picks option o of #theme-select: the change listener calls setTheme
SelectChange(o) ==
    /\ variant = "attr"
    /\ "select" \in elements
    /\ listeners["select"] > 0
    /\ Commit(setTheme(o, [Env EXCEPT !.selectValue = o]))
    /\ lastOp' = "change"
    /\ savedRead' = NotRead
    /\ interacted' = TRUE
    /\ UNCHANGED <<variant, elements, pc, listeners, carried, origStored>>
    /\ UNCHANGED notThemeVars

\* the user clicks #btn-<t>: the click listener calls setTheme(t)
ButtonClick(t) ==
    /\ variant = "inline"
    /\ t \in elements
    /\ listeners[t] > 0
    /\ Commit(setThemeInline(t, Env))
    /\ lastOp' = "click"
    /\ savedRead' = NotRead
    /\ interacted' = TRUE
    /\ UNCHANGED <<variant, elements, pc, listeners, carried, origStored>>
    /\ UNCHANGED notThemeVars

\* the page is loaded again: a fresh document against the same storage
Reload ==
    /\ pc = "ready"
    /\ pc' = "parsing"
    /\ dataTheme' = Null
    /\ rootStyle' = Empty
    /\ selectValue' \in (IF "select" \in elements THEN SelectOptions ELSE {""})
    /\ btnStyle' = [t \in DOMAIN btnStyle |-> [opacity |-> "", fontWeight |-> ""]]
    /\ listeners' = [c \in DOMAIN listeners |-> 0]
    /\ lastOp' = "reload"
    /\ storageLog' = <<>>
    /\ applyCalls' = <<>>
    /\ savedRead' = NotRead
    /\ lsBefore' = Stored
    /\ sessionTheme' = "none"
    /\ carried' = [theme |-> sessionTheme, marker |-> Override]
    /\ UNCHANGED <<variant, elements, localStorage, origStored, interacted>>
    /\ UNCHANGED notThemeVars

\* no second document is run
NoTwin ==
    [ls |-> Empty, dataTheme |-> Null, selectValue |-> "", rootStyle |-> Empty,
     btnStyle |-> Empty, log |-> <<>>, calls |-> <<>>]

ThemeInit ==
    /\ variant \in {"attr", "inline"}
    /\ elements \in (IF variant = "attr" THEN SUBSET {"select"} ELSE SUBSET Themes)
    /\ pc = "parsing"
    /\ origStored \in InitialStored
    /\ localStorage = (IF origStored = Null THEN Empty ELSE ("theme" :> origStored))
    /\ dataTheme = Null
    /\ rootStyle = Empty
    /\ selectValue \in (IF "select" \in elements THEN SelectOptions ELSE {""})
    /\ btnStyle = [t \in (IF variant = "inline" THEN elements ELSE {}) |->
                      [opacity |-> "", fontWeight |-> ""]]
    /\ listeners = [c \in ThemeControls |-> 0]
    /\ lastOp = "none"
    /\ storageLog = <<>>
    /\ applyCalls = <<>>
    /\ savedRead = NotRead
    /\ lsBefore = origStored
    /\ sessionTheme = "none"
    /\ carried = [theme |-> "none", marker |-> "none"]
    /\ interacted = FALSE
    /\ twin = NoTwin

----------------------------------------------------------------------------
(* Copy-button widget (copy-button.ts) *)

\* code blocks in the document
NumBlocks == 2
Blocks == 1..NumBlocks

\* copy-button clicks explored
MaxClicks == 2

\* texts a code block may hold
CodeTexts == {"hello()", ""}

\* the delay of both setTimeout calls of the click handler, in ms
RevertDelay == 2000

\* the model's clock step, in ms
TickMs == RevertDelay \div 2

\* the clipboard before any copy
OtherText == "<other>"

\* history value: the most recent step settled no write and ran no timer
NoCopyOp == [kind |-> "other", block |-> 0, text |-> "", age |-> 0,
             copiedBefore |-> FALSE, thrown |-> FALSE]

\* the button addCopyButtons creates for a block
newButton == [textContent |-> "Copy", copied |-> FALSE, opacity |-> "0"]

\* setTimeout(callback, delay): the callback is named by its block and branch
setTimeout(ts, b, kind, delay) ==
    Append(ts, [block |-> b, kind |-> kind, delay |-> delay, age |-> 0])

\* a try branch that sets the label and the class but starts no timer
copySucceeded_noTimer(b, btn, ts) ==
    [button |-> [btn EXCEPT ![b].textContent = "Copied!", ![b].copied = TRUE],
     timers |-> ts]

\* click handler, after `await navigator.clipboard.writeText(text)` resolved
copySucceeded(b, btn, ts) ==
    [button |-> [btn EXCEPT ![b].textContent = "Copied!", ![b].copied = TRUE],
     timers |-> setTimeout(ts, b, "copied", RevertDelay)]

\* a click handler without try/catch: the rejection leaves the handler unhandled
copyFailed_uncaught(b, btn, ts) ==
    [button |-> btn, timers |-> ts, thrown |-> TRUE]

\* click handler, catch branch: writeText rejected; the error is logged, the
\* label set and a timer started, and nothing is thrown again
copyFailed(b, btn, ts) ==
    [button |-> [btn EXCEPT ![b].textContent = "Failed"],
     timers |-> setTimeout(ts, b, "failed", RevertDelay),
     thrown |-> FALSE]

\* a revert callback that clears the class and hides the button but keeps the label
revertCopied_keepsLabel(b, btn) ==
    [btn EXCEPT ![b].copied = FALSE, ![b].opacity = "0"]

\* the setTimeout callback of the try branch
revertCopied(b, btn) ==
    [btn EXCEPT ![b].textContent = "Copy", ![b].copied = FALSE, ![b].opacity = "0"]

\* the setTimeout callback of the catch branch
revertFailed(b, btn) == [btn EXCEPT ![b].textContent = "Copy"]

\* a sequence without its i-th element
RemoveAt(seq, i) == [j \in 1..(Len(seq) - 1) |-> IF j < i THEN seq[j] ELSE seq[j + 1]]

\* addCopyButtons(): one button per <pre><code> block
addCopyButtons ==
    /\ button' = [b \in Blocks |-> newButton]
    /\ injected' = [b \in Blocks |-> injected[b] + 1]
    /\ copyPc' = "ready"
    /\ lastCopyOp' = NoCopyOp
    /\ UNCHANGED <<blockText, pointer, clipboard, pending, timers, clicks>>
    /\ UNCHANGED notCopyVars

\* the script is evaluated while document.readyState is "loading"
CopyScriptWhileLoading ==
    /\ copyPc = "parsing"
    /\ copyPc' = "waiting"
    /\ lastCopyOp' = NoCopyOp
    /\ UNCHANGED <<blockText, button, pointer, clipboard, pending, timers, clicks>>
    /\ UNCHANGED injected
    /\ UNCHANGED notCopyVars

\* the script is evaluated after the document was parsed
CopyScriptAfterLoad ==
    /\ copyPc = "parsing"
    /\ addCopyButtons

\* the DOMContentLoaded listener runs addCopyButtons()
CopyDOMContentLoaded ==
    /\ copyPc = "waiting"
    /\ addCopyButtons

\* wrapper "mouseenter"
WrapperMouseEnter(b) ==
    /\ copyPc = "ready"
    /\ pointer = 0
    /\ pointer' = b
    /\ button' = [button EXCEPT ![b].opacity = "1"]
    /\ lastCopyOp' = NoCopyOp
    /\ UNCHANGED <<copyPc, blockText, clipboard, pending, timers, clicks>>
    /\ UNCHANGED injected
    /\ UNCHANGED notCopyVars

\* wrapper "mouseleave"
WrapperMouseLeave(b) ==
    /\ copyPc = "ready"
    /\ pointer = b
    /\ pointer' = 0
    /\ button' = IF ~button[b].copied THEN [button EXCEPT ![b].opacity = "0"] ELSE button
    /\ lastCopyOp' = NoCopyOp
    /\ UNCHANGED <<copyPc, blockText, clipboard, pending, timers, clicks>>
    /\ UNCHANGED injected
    /\ UNCHANGED notCopyVars

\* button "mouseenter": the pointer, inside the wrapper, moves onto the button
ButtonMouseEnter(b) ==
    /\ copyPc = "ready"
    /\ pointer = b
    /\ button[b].opacity /= "1"
    /\ button' = [button EXCEPT ![b].opacity = "1"]
    /\ lastCopyOp' = NoCopyOp
    /\ UNCHANGED <<copyPc, blockText, pointer, clipboard, pending, timers, clicks>>
    /\ UNCHANGED injected
    /\ UNCHANGED notCopyVars

\* button "click", up to the await: the text is read and writeText is called
CopyClick(b) ==
    /\ copyPc = "ready"
    /\ clicks < MaxClicks
    /\ clicks' = clicks + 1
    /\ pending' = Append(pending, [block |-> b,
                                   text |-> IF blockText[b] /= "" THEN blockText[b] ELSE ""])
    /\ lastCopyOp' = NoCopyOp
    /\ UNCHANGED <<copyPc, blockText, button, pointer, clipboard, timers>>
    /\ UNCHANGED injected
    /\ UNCHANGED notCopyVars

\* a writeText call resolves: the clipboard holds the text, the handler resumes
WriteResolves(i) ==
    /\ i \in DOMAIN pending
    /\ LET w == pending[i]
           r == copySucceeded(w.block, button, timers)
       IN  /\ clipboard' = w.text
           /\ button' = r.button
           /\ timers' = r.timers
           /\ lastCopyOp' = [kind |-> "resolved", block |-> w.block, text |-> w.text,
                             age |-> 0, copiedBefore |-> button[w.block].copied,
                             thrown |-> FALSE]
    /\ pending' = RemoveAt(pending, i)
    /\ UNCHANGED <<copyPc, blockText, pointer, clicks>>
    /\ UNCHANGED injected
    /\ UNCHANGED notCopyVars

\* a writeText call rejects: the handler resumes in its catch branch
WriteRejects(i) ==
    /\ i \in DOMAIN pending
    /\ LET w == pending[i]
           r == copyFailed(w.block, button, timers)
       IN  /\ button' = r.button
           /\ timers' = r.timers
           /\ lastCopyOp' = [kind |-> "rejected", block |-> w.block, text |-> w.text,
                             age |-> 0, copiedBefore |-> button[w.block].copied,
                             thrown |-> r.thrown]
    /\ pending' = RemoveAt(pending, i)
    /\ UNCHANGED <<copyPc, blockText, pointer, clipboard, clicks>>
    /\ UNCHANGED injected
    /\ UNCHANGED notCopyVars

\* time passes: every pending timer ages by one clock step (up to its delay)
Tick ==
    /\ \E i \in DOMAIN timers : timers[i].age < timers[i].delay
    /\ timers' = [i \in DOMAIN timers |->
                    [timers[i] EXCEPT !.age = IF @ + TickMs > timers[i].delay
                                              THEN timers[i].delay ELSE @ + TickMs]]
    /\ lastCopyOp' = NoCopyOp
    /\ UNCHANGED <<copyPc, blockText, button, pointer, clipboard, pending, clicks>>
    /\ UNCHANGED injected
    /\ UNCHANGED notCopyVars

\* the oldest timer has waited its delay: its callback runs
TimerFires ==
    /\ timers /= <<>>
    /\ timers[1].age >= timers[1].delay
    /\ button' = IF timers[1].kind = "copied"
                 THEN revertCopied(timers[1].block, button)
                 ELSE revertFailed(timers[1].block, button)
    /\ timers' = Tail(timers)
    /\ lastCopyOp' = [kind |-> "timer", block |-> timers[1].block, text |-> timers[1].kind,
                      age |-> timers[1].age,
                      copiedBefore |-> button[timers[1].block].copied, thrown |-> FALSE]
    /\ UNCHANGED <<copyPc, blockText, pointer, clipboard, pending, clicks>>
    /\ UNCHANGED injected
    /\ UNCHANGED notCopyVars

\* the copy widget before its script ran, with a given text in each block
CopyStart(texts) ==
    /\ copyPc = "parsing"
    /\ blockText = texts
    /\ button = Empty
    /\ pointer = 0
    /\ clipboard = OtherText
    /\ pending = <<>>
    /\ timers = <<>>
    /\ clicks = 0
    /\ lastCopyOp = NoCopyOp
    /\ injected = [b \in Blocks |-> 0]

\* the copy widget as the theme controller's specification holds it
CopyIdle == CopyStart([b \in Blocks |-> "hello()"])

\* the theme controller as the copy widget's specification holds it
ThemeIdle ==
    /\ variant = "attr"
    /\ elements = {"select"}
    /\ pc = "parsing"
    /\ origStored = Null
    /\ localStorage = Empty
    /\ dataTheme = Null
    /\ rootStyle = Empty
    /\ selectValue = "auto"
    /\ btnStyle = Empty
    /\ listeners = [c \in ThemeControls |-> 0]
    /\ lastOp = "none"
    /\ storageLog = <<>>
    /\ applyCalls = <<>>
    /\ savedRead = NotRead
    /\ lsBefore = Null
    /\ sessionTheme = "none"
    /\ carried = [theme |-> "none", marker |-> "none"]
    /\ interacted = FALSE
    /\ twin = NoTwin


CopyNext ==
    \/ CopyScriptWhileLoading
    \/ CopyScriptAfterLoad
    \/ CopyDOMContentLoaded
    \/ \E b \in Blocks : CopyClick(b)
    \/ \E i \in 1..MaxClicks : WriteResolves(i)
    \/ \E i \in 1..MaxClicks : WriteRejects(i)
    \/ Tick
    \/ TimerFires

----------------------------------------------------------------------------
(* Dialog controls (src/demo/dialog.ts) *)

\* the elements initDialog looks up: #demo-dialog, #open-dialog, #close-dialog
DialogIds == {"dialog", "open", "close"}

\* history value: no dialog control was clicked in the most recent step
NoDlgOp == [kind |-> "other", target |-> "", openBefore |-> FALSE, threw |-> FALSE]

\* an open listener that calls dialog.showModal() without the optional chaining
openListener_unguarded(present, open) ==
    IF present THEN [open |-> TRUE, threw |-> FALSE] ELSE [open |-> open, threw |-> TRUE]

\* () => dialog?.showModal()
openListener(present, open) ==
    IF present THEN [open |-> TRUE, threw |-> FALSE] ELSE [open |-> open, threw |-> FALSE]

\* () => dialog?.close()
closeListener(present, open) ==
    IF present THEN [open |-> FALSE, threw |-> FALSE] ELSE [open |-> open, threw |-> FALSE]

\* a dialog listener that closes on every click that reaches the dialog
dialogListener_anyTarget(target, open) == FALSE

\* (e) => { if (e.target === dialog) dialog.close(); }: the open state it leaves
dialogListener(target, open) == IF target = "dialog" THEN FALSE ELSE open

\* initDialog(): the three lookups and the listener registrations
initDialog ==
    /\ dlgListeners' = [id \in DialogIds |->
                           IF id \in dlgElements THEN dlgListeners[id] + 1
                                                 ELSE dlgListeners[id]]
    /\ dlgPc' = "ready"
    /\ lastDlgOp' = NoDlgOp
    /\ UNCHANGED <<dlgElements, dialogOpen>>
    /\ UNCHANGED notDialogVars

\* the script is evaluated while document.readyState is "loading"
DlgScriptWhileLoading ==
    /\ dlgPc = "parsing"
    /\ dlgPc' = "waiting"
    /\ lastDlgOp' = NoDlgOp
    /\ UNCHANGED <<dlgElements, dialogOpen, dlgListeners>>
    /\ UNCHANGED notDialogVars

\* the script is evaluated after the document was parsed
DlgScriptAfterLoad ==
    /\ dlgPc = "parsing"
    /\ initDialog

\* the DOMContentLoaded listener runs initDialog()
DlgDOMContentLoaded ==
    /\ dlgPc = "waiting"
    /\ initDialog

\* a click on #open-dialog; while the dialog is shown modally the rest of the
\* page is inert and cannot be clicked
OpenClick ==
    /\ "open" \in dlgElements
    /\ ~dialogOpen
    /\ LET r == IF dlgListeners["open"] > 0
                THEN openListener("dialog" \in dlgElements, dialogOpen)
                ELSE [open |-> dialogOpen, threw |-> FALSE]
       IN  /\ dialogOpen' = r.open
           /\ lastDlgOp' = [kind |-> "click", target |-> "open", openBefore |-> dialogOpen,
                            threw |-> r.threw]
    /\ UNCHANGED <<dlgPc, dlgElements, dlgListeners>>
    /\ UNCHANGED notDialogVars

\* a click on #close-dialog, a descendant of the dialog when there is one: its
\* own listener runs, then the click bubbles to the dialog's listener
CloseClick ==
    /\ "close" \in dlgElements
    /\ "dialog" \in dlgElements => dialogOpen
    /\ LET r == IF dlgListeners["close"] > 0
                THEN closeListener("dialog" \in dlgElements, dialogOpen)
                ELSE [open |-> dialogOpen, threw |-> FALSE]
           after == IF "dialog" \in dlgElements /\ dlgListeners["dialog"] > 0
                    THEN dialogListener("close", r.open)
                    ELSE r.open
       IN  /\ dialogOpen' = after
           /\ lastDlgOp' = [kind |-> "click", target |-> "close", openBefore |-> dialogOpen,
                            threw |-> r.threw]
    /\ UNCHANGED <<dlgPc, dlgElements, dlgListeners>>
    /\ UNCHANGED notDialogVars

\* a click inside the open dialog: on the dialog element itself (its backdrop)
\* or on a descendant other than the close control ("content")
DialogClick(target) ==
    /\ "dialog" \in dlgElements
    /\ dialogOpen
    /\ dialogOpen' = IF dlgListeners["dialog"] > 0
                     THEN dialogListener(target, dialogOpen)
                     ELSE dialogOpen
    /\ lastDlgOp' = [kind |-> "click", target |-> target, openBefore |-> dialogOpen,
                     threw |-> FALSE]
    /\ UNCHANGED <<dlgPc, dlgElements, dlgListeners>>
    /\ UNCHANGED notDialogVars

\* the dialog widget before its script ran, in a document with the given elements
DialogStart(present) ==
    /\ dlgPc = "parsing"
    /\ dlgElements = present
    /\ dialogOpen = FALSE
    /\ dlgListeners = [id \in DialogIds |-> 0]
    /\ lastDlgOp = NoDlgOp

\* the dialog widget as the other components' specifications hold it
DialogIdle == DialogStart(DialogIds)

----------------------------------------------------------------------------
(* Raw/styled toggle: initRawToggle of src/raw-toggle.ts ("raw-toggle") and   *)
(* the initRawToggle at the end of src/theme-switcher.ts ("theme-switcher")   *)

\* most link/style elements a document has
NumSheets == 2

\* most clicks on #toggle-raw in one page load
MaxRawClicks == 3

\* getElementById("toggle-raw") found nothing
NoElement == [present |-> FALSE, display |-> "", textContent |-> ""]

\* the hosts initRawToggle treats as development hosts, and one that is not
DevHosts == {"localhost", "127.0.0.1"}

Hostnames == DevHosts \cup {"example.com"}

\* the two element types the click listener tests with instanceof
SheetKinds == {"link", "style"}

\* the label #toggle-raw carries in the page's markup
RawLabel == "Raw HTML"

\* history value: the toggle was neither initialised nor clicked in the most recent step
NoRawOp == [kind |-> "other", threw |-> FALSE]

\* a listener that disables the sheets on every click
rawClickListener_alwaysRaw(raw, found, ss, btn) ==
    [isRaw |-> ~raw,
     sheets |-> [i \in DOMAIN ss |->
                    IF i \in found /\ ss[i].kind \in SheetKinds
                    THEN [ss[i] EXCEPT !.disabled = TRUE]
                    ELSE ss[i]],
     rawBtn |-> [btn EXCEPT !.textContent = IF ~raw THEN "Show Styled" ELSE "Raw HTML"]]

\* the click listener: isRaw = !isRaw; style.disabled = isRaw for every listed
\* link or style element; rawBtn.textContent = isRaw ? "Show Styled" : "Raw HTML"
rawClickListener(raw, found, ss, btn) ==
    [isRaw |-> ~raw,
     sheets |-> [i \in DOMAIN ss |->
                    IF i \in found /\ ss[i].kind \in SheetKinds
                    THEN [ss[i] EXCEPT !.disabled = ~raw]
                    ELSE ss[i]],
     rawBtn |-> [btn EXCEPT !.textContent = IF ~raw THEN "Show Styled" ELSE "Raw HTML"]]

\* initRawToggle() of the given script: what it leaves of the button, the
\* captured node list and the listener count
initRawToggleBody(script, host, btn, ss, n) ==
    IF btn = NoElement
    THEN [rawBtn |-> btn, allStyles |-> {}, listeners |-> n, threw |-> FALSE]
    ELSE IF script = "raw-toggle" /\ host \notin DevHosts
    THEN [rawBtn |-> [btn EXCEPT !.display = "none"], allStyles |-> {}, listeners |-> n,
          threw |-> FALSE]
    ELSE [rawBtn |-> btn, allStyles |-> DOMAIN ss, listeners |-> n + 1, threw |-> FALSE]

\* initRawToggle() as a step of the page
initRawToggle ==
    /\ LET r == initRawToggleBody(rawScript, hostname, rawBtn, sheets, rawListeners)
       IN  /\ rawBtn' = r.rawBtn
           /\ allStyles' = r.allStyles
           /\ rawListeners' = r.listeners
           /\ lastRawOp' = [kind |-> "init", threw |-> r.threw]
    /\ rawPc' = "ready"
    /\ UNCHANGED <<rawScript, hostname, isRaw, sheets, rawClicks>>
    /\ UNCHANGED notRawVars

\* the script is evaluated while document.readyState is "loading"
RawScriptWhileLoading ==
    /\ rawPc = "parsing"
    /\ rawPc' = "waiting"
    /\ lastRawOp' = NoRawOp
    /\ UNCHANGED <<rawScript, hostname, rawBtn, isRaw, sheets, allStyles, rawListeners,
                   rawClicks>>
    /\ UNCHANGED notRawVars

\* the script is evaluated after the document was parsed
RawScriptAfterLoad ==
    /\ rawPc = "parsing"
    /\ initRawToggle

\* the DOMContentLoaded listener runs initRawToggle()
RawDOMContentLoaded ==
    /\ rawPc = "waiting"
    /\ initRawToggle

\* a toggle that, going raw, also strips the theme override from the document root
RawClick_stripsOverride ==
    /\ rawPc = "ready"
    /\ rawBtn /= NoElement
    /\ rawClicks < MaxRawClicks
    /\ rawClicks' = rawClicks + 1
    /\ IF rawListeners > 0
       THEN LET r == rawClickListener(isRaw, allStyles, sheets, rawBtn)
            IN  /\ isRaw' = r.isRaw
                /\ sheets' = r.sheets
                /\ rawBtn' = r.rawBtn
                /\ dataTheme' = Null
                /\ rootStyle' = Empty
       ELSE UNCHANGED <<isRaw, sheets, rawBtn, dataTheme, rootStyle>>
    /\ lastRawOp' = [kind |-> "click", threw |-> FALSE]
    /\ UNCHANGED <<rawScript, hostname, rawPc, allStyles, rawListeners>>
    /\ UNCHANGED <<variant, elements, pc, localStorage, selectValue, btnStyle, listeners,
                   lastOp, storageLog, applyCalls, savedRead, lsBefore, sessionTheme,
                   carried, origStored, interacted>>
    /\ UNCHANGED <<copyVars, dialogVars, buildVars, twin>>

\* a click on #toggle-raw once the page is loaded
RawClick ==
    /\ rawPc = "ready"
    /\ rawBtn /= NoElement
    /\ rawClicks < MaxRawClicks
    /\ rawClicks' = rawClicks + 1
    /\ IF rawListeners > 0
       THEN LET r == rawClickListener(isRaw, allStyles, sheets, rawBtn)
            IN  /\ isRaw' = r.isRaw
                /\ sheets' = r.sheets
                /\ rawBtn' = r.rawBtn
       ELSE UNCHANGED <<isRaw, sheets, rawBtn>>
    /\ lastRawOp' = [kind |-> "click", threw |-> FALSE]
    /\ UNCHANGED <<rawScript, hostname, rawPc, allStyles, rawListeners>>
    /\ UNCHANGED notRawVars

\* a later script adds a link or style element to the loaded document
InsertStyle(kind) ==
    /\ rawPc = "ready"
    /\ Len(sheets) < NumSheets
    /\ sheets' = Append(sheets, [kind |-> kind, disabled |-> FALSE])
    /\ lastRawOp' = NoRawOp
    /\ UNCHANGED <<rawScript, hostname, rawPc, rawBtn, isRaw, allStyles, rawListeners,
                   rawClicks>>
    /\ UNCHANGED notRawVars

\* the toggle before its script ran
RawStart(script, host, hasBtn, ss) ==
    /\ rawScript = script
    /\ hostname = host
    /\ rawPc = "parsing"
    /\ rawBtn = (IF hasBtn THEN [present |-> TRUE, display |-> "", textContent |-> RawLabel]
                         ELSE NoElement)
    /\ isRaw = FALSE
    /\ sheets = ss
    /\ allStyles = {}
    /\ rawListeners = 0
    /\ rawClicks = 0
    /\ lastRawOp = NoRawOp

\* the documents a page load can start from: up to NumSheets enabled sheets
InitialSheets ==
    UNION {[1..n -> [kind : SheetKinds, disabled : {FALSE}]] : n \in 0..NumSheets}

\* the toggle as the other components' specifications hold it
RawIdle == RawStart("raw-toggle", "localhost", TRUE, <<>>)

----------------------------------------------------------------------------
(* Build scripts: the two versions of scripts/build.ts ("bun-native" reads   *)
(* and writes with Bun.file/Bun.write, "bun-bundler" with node:fs) and the   *)
(* dependency-free script ("simple").  File contents are sequences of        *)
(* tokens; a token is a character or an indivisible piece of text.           *)

\* most tokens in src/variables-dark.css
MaxLen == 2

BuildScripts == {"bun-native", "bun-bundler", "simple"}

NL == "\n"

TAB == "\t"

\* the text "@media (prefers-color-scheme: dark) " up to its opening brace
MEDIA == "@media (prefers-color-scheme: dark) "

\* the header comment the simple script puts in front of every stylesheet
header == <<"/** juice.css */", NL, NL>>

\* all sequences over S of length at most n
RECURSIVE SeqsUpTo(_, _)
SeqsUpTo(S, n) ==
    IF n = 0 THEN {<<>>}
    ELSE LET shorter == SeqsUpTo(S, n - 1)
         IN  shorter \cup {Append(q, x) : q \in {r \in shorter : Len(r) = n - 1}, x \in S}

\* contents src/variables-dark.css can have
DarkFiles == SeqsUpTo({"d", NL, TAB, "{", "}"}, MaxLen)

\* contents src/variables-light.css can have
LightFiles == {<<>>, <<"l">>, <<"l", NL>>, <<"{", "l", "}">>}

\* contents src/base.css can have
BaseFiles == {<<>>, <<"b", "{", "}">>, <<MEDIA, "{", "b", "}", NL>>}

\* contents src/index.html can have
HTMLFiles == {<<"h">>, <<"juice-dev.css", "h">>, <<"h", "juice-dev.css", "juice-dev.css">>}

\* String.prototype.split("\n"): the lines of s
RECURSIVE split(_)
split(str) ==
    IF \A i \in DOMAIN str : str[i] /= NL THEN <<str>>
    ELSE LET i == CHOOSE k \in DOMAIN str :
                      str[k] = NL /\ \A j \in 1..(k - 1) : str[j] /= NL
         IN  <<SubSeq(str, 1, i - 1)>> \o split(SubSeq(str, i + 1, Len(str)))

\* Array.prototype.join("\n")
RECURSIVE join(_)
join(lines) ==
    IF Len(lines) = 0 THEN <<>>
    ELSE IF Len(lines) = 1 THEN lines[1]
    ELSE lines[1] \o <<NL>> \o join(Tail(lines))

\* darkVars.split("\n").map((line) => (line ? `\t${line}` : line)).join("\n")
indentedDarkVars(dark) ==
    LET lines == split(dark)
    IN  join([i \in DOMAIN lines |->
                 IF lines[i] /= <<>> THEN <<TAB>> \o lines[i] ELSE lines[i]])

\* an auto bundle whose media block is never closed
autoCSS_unclosed(script, light, dark, b) ==
    (IF script = "simple" THEN header ELSE <<>>)
       \o light \o <<NL, NL, MEDIA, "{", NL>>
       \o (IF script = "bun-native" THEN indentedDarkVars(dark) ELSE dark)
       \o <<NL, NL>> \o b

\* autoCSS: light variables, the dark variables inside the media query, base
autoCSS(script, light, dark, b) ==
    (IF script = "simple" THEN header ELSE <<>>)
       \o light \o <<NL, NL, MEDIA, "{", NL>>
       \o (IF script = "bun-native" THEN indentedDarkVars(dark) ELSE dark)
       \o <<NL, "}", NL, NL>> \o b

\* lightCSS: light variables, base
lightCSS(script, light, dark, b) ==
    (IF script = "simple" THEN header ELSE <<>>) \o light \o <<NL, NL>> \o b

\* darkCSS: dark variables, base
darkCSS(script, light, dark, b) ==
    (IF script = "simple" THEN header ELSE <<>>) \o dark \o <<NL, NL>> \o b

\* indexHTML.replace("juice-dev.css", "juice.css"): the first occurrence only
prodHTML(html) ==
    IF \A i \in DOMAIN html : html[i] /= "juice-dev.css" THEN html
    ELSE LET i == CHOOSE k \in DOMAIN html :
                      html[k] = "juice-dev.css"
                      /\ \A j \in 1..(k - 1) : html[j] /= "juice-dev.css"
         IN  [html EXCEPT ![i] = "juice.css"]

\* a script that leaves out the dark stylesheet
stylesheetWrites_noDark(script, light, dark, b) ==
    LET out == ("out/juice.css" :> autoCSS(script, light, dark, b))
               @@ ("out/juice-light.css" :> lightCSS(script, light, dark, b))
    IN  out

\* the stylesheet files the script writes: out/ always, dist/ in scripts/build.ts
stylesheetWrites(script, light, dark, b) ==
    LET out == ("out/juice.css" :> autoCSS(script, light, dark, b))
               @@ ("out/juice-light.css" :> lightCSS(script, light, dark, b))
               @@ ("out/juice-dark.css" :> darkCSS(script, light, dark, b))
        dist == ("dist/juice.css" :> autoCSS(script, light, dark, b))
                @@ ("dist/juice-light.css" :> lightCSS(script, light, dark, b))
                @@ ("dist/juice-dark.css" :> darkCSS(script, light, dark, b))
    IN  IF script = "simple" THEN out ELSE out @@ dist

\* the page file the script produces: the simple script rewrites the stylesheet
\* path into out/index.html, scripts/build.ts bundles the page into dist/
htmlWrite(script, html) ==
    IF script = "simple"
    THEN "out/index.html" :> prodHTML(html)
    ELSE "dist/index.html" :> html

\* mkdir of the output directories: first thing in scripts/build.ts, after the
\* reads in the simple script
BuildMkdir ==
    /\ \/ buildScript /= "simple" /\ buildPc = "start"
       \/ buildScript = "simple" /\ buildPc = "mkdir"
    /\ buildPc' = IF buildScript = "simple" THEN "css" ELSE "read"
    /\ UNCHANGED <<buildScript, lightVars, darkVars, base, indexHTML, written>>
    /\ UNCHANGED notBuildVars

\* the source files are read
BuildRead ==
    /\ \/ buildScript /= "simple" /\ buildPc = "read"
       \/ buildScript = "simple" /\ buildPc = "start"
    /\ buildPc' = IF buildScript = "simple" THEN "mkdir" ELSE "css"
    /\ UNCHANGED <<buildScript, lightVars, darkVars, base, indexHTML, written>>
    /\ UNCHANGED notBuildVars

\* a source file cannot be read: the exception ends the run
BuildReadFails ==
    /\ \/ buildScript /= "simple" /\ buildPc = "read"
       \/ buildScript = "simple" /\ buildPc = "start"
    /\ buildPc' = "failed"
    /\ UNCHANGED <<buildScript, lightVars, darkVars, base, indexHTML, written>>
    /\ UNCHANGED notBuildVars

\* the three bundles are composed and written
WriteStylesheets ==
    /\ buildPc = "css"
    /\ written' = stylesheetWrites(buildScript, lightVars, darkVars, base) @@ written
    /\ buildPc' = "html"
    /\ UNCHANGED <<buildScript, lightVars, darkVars, base, indexHTML>>
    /\ UNCHANGED notBuildVars

\* the demo page is produced; the simple script is complete after it
BuildHTML ==
    /\ buildPc = "html"
    /\ written' = htmlWrite(buildScript, indexHTML) @@ written
    /\ buildPc' = IF buildScript = "simple" THEN "done" ELSE "switcher"
    /\ UNCHANGED <<buildScript, lightVars, darkVars, base, indexHTML>>
    /\ UNCHANGED notBuildVars

\* Bun.build of the page reports failure: process.exit(1)
BuildHTMLFails ==
    /\ buildPc = "html"
    /\ buildScript /= "simple"
    /\ buildPc' = "failed"
    /\ UNCHANGED <<buildScript, lightVars, darkVars, base, indexHTML, written>>
    /\ UNCHANGED notBuildVars

\* Bun.build of src/theme-switcher.ts succeeds: the run is complete
BuildThemeSwitcher ==
    /\ buildPc = "switcher"
    /\ written' = ("dist/theme-switcher.js" :> <<"minified">>) @@ written
    /\ buildPc' = "done"
    /\ UNCHANGED <<buildScript, lightVars, darkVars, base, indexHTML>>
    /\ UNCHANGED notBuildVars

\* Bun.build of src/theme-switcher.ts reports failure: process.exit(1)
BuildThemeSwitcherFails ==
    /\ buildPc = "switcher"
    /\ buildPc' = "failed"
    /\ UNCHANGED <<buildScript, lightVars, darkVars, base, indexHTML, written>>
    /\ UNCHANGED notBuildVars

\* a build run about to start on the given source files
BuildStart(script, light, dark, b, html) ==
    /\ buildScript = script
    /\ lightVars = light
    /\ darkVars = dark
    /\ base = b
    /\ indexHTML = html
    /\ buildPc = "start"
    /\ written = Empty

\* the build as the other components' specifications hold it
BuildIdle == BuildStart("simple", <<>>, <<>>, <<>>, <<"h">>)

CopyInit ==
    /\ ThemeIdle /\ DialogIdle /\ RawIdle /\ BuildIdle
    /\ \E texts \in [Blocks -> CodeTexts] : CopyStart(texts)

Init == ThemeInit /\ CopyIdle /\ DialogIdle /\ RawIdle /\ BuildIdle

Next ==
    \/ ScriptWhileLoading
    \/ ScriptAfterLoad
    \/ DOMContentLoaded
    \/ \E o \in SelectOptions : SelectChange(o)
    \/ \E t \in Themes : ButtonClick(t)
    \/ Reload

vars == <<themeVars, copyVars, dialogVars, rawVars, buildVars, twin>>

Spec == Init /\ [][Next]_vars

----------------------------------------------------------------------------
(* The two theme implementations in lockstep: the page variables hold the     *)
(* document run by src/demo/theme-switcher.ts (a select), twin holds the       *)
(* document run by src/theme-switcher.ts (three buttons). Both start from the  *)
(* same stored value and receive the same operations.                          *)

\* the second document as its handlers see it
TwinEnv == [twin EXCEPT !.log = <<>>, !.calls = <<>>]

\* both scripts run init()
PairInitialize ==
    /\ pc = "parsing"
    /\ Commit(init(Env))
    /\ twin' = initInline(TwinEnv)
    /\ listeners' = attachListeners(listeners)
    /\ savedRead' = Stored
    /\ lastOp' = "init"
    /\ pc' = "ready"
    /\ UNCHANGED <<variant, elements, carried, origStored, interacted>>
    /\ UNCHANGED <<copyVars, dialogVars, rawVars, buildVars>>

\* the user chooses theme t in both documents: option t of #theme-select in
\* the first, #btn-<t> in the second
PairApply(t) ==
    /\ pc = "ready"
    /\ listeners["select"] > 0
    /\ Commit(setTheme(t, [Env EXCEPT !.selectValue = t]))
    /\ twin' = setThemeInline(t, TwinEnv)
    /\ lastOp' = "change"
    /\ savedRead' = NotRead
    /\ interacted' = TRUE
    /\ UNCHANGED <<variant, elements, pc, listeners, carried, origStored>>
    /\ UNCHANGED <<copyVars, dialogVars, rawVars, buildVars>>

\* both pages are loaded again: the documents are fresh, each storage is kept
PairReload ==
    /\ pc = "ready"
    /\ pc' = "parsing"
    /\ dataTheme' = Null
    /\ rootStyle' = Empty
    /\ selectValue' \in SelectOptions
    /\ btnStyle' = btnStyle
    /\ twin' = [twin EXCEPT !.rootStyle = Empty,
                            !.btnStyle = [t \in Themes |-> [opacity |-> "", fontWeight |-> ""]],
                            !.log = <<>>, !.calls = <<>>]
    /\ listeners' = [c \in DOMAIN listeners |-> 0]
    /\ lastOp' = "reload"
    /\ storageLog' = <<>>
    /\ applyCalls' = <<>>
    /\ savedRead' = NotRead
    /\ lsBefore' = Stored
    /\ sessionTheme' = "none"
    /\ carried' = [theme |-> sessionTheme, marker |-> Override]
    /\ UNCHANGED <<variant, elements, localStorage, origStored, interacted>>
    /\ UNCHANGED <<copyVars, dialogVars, rawVars, buildVars>>

\* both documents before their scripts ran, with the same stored value
PairStart ==
    /\ variant = "attr"
    /\ elements = {"select"}
    /\ pc = "parsing"
    /\ origStored \in InitialStored
    /\ localStorage = (IF origStored = Null THEN Empty ELSE ("theme" :> origStored))
    /\ dataTheme = Null
    /\ rootStyle = Empty
    /\ selectValue \in SelectOptions
    /\ btnStyle = Empty
    /\ listeners = [c \in ThemeControls |-> 0]
    /\ lastOp = "none"
    /\ storageLog = <<>>
    /\ applyCalls = <<>>
    /\ savedRead = NotRead
    /\ lsBefore = origStored
    /\ sessionTheme = "none"
    /\ carried = [theme |-> "none", marker |-> "none"]
    /\ interacted = FALSE
    /\ twin = [ls |-> localStorage, dataTheme |-> Null, selectValue |-> "",
               rootStyle |-> Empty,
               btnStyle |-> [t \in Themes |-> [opacity |-> "", fontWeight |-> ""]],
               log |-> <<>>, calls |-> <<>>]

PairInit == PairStart /\ CopyIdle /\ DialogIdle /\ RawIdle /\ BuildIdle

PairNext ==
    \/ PairInitialize
    \/ \E t \in Themes : PairApply(t)
    \/ PairReload

PairSpec == PairInit /\ [][PairNext]_vars

\* The copy widget's clicks, clipboard writes and timers. The browser's event loop runs every due timer and
\* settles every clipboard write; time passes.
CopySpec ==
    /\ CopyInit
    /\ [][CopyNext]_vars
    /\ WF_vars(Tick)
    /\ WF_vars(TimerFires)
    /\ WF_vars(\E i \in 1..MaxClicks : WriteResolves(i) \/ WriteRejects(i))

\* The demo page's dialog and raw/styled toggle: both scripts are loaded by
\* the same page and share nothing but the document.
WidgetInit ==
    /\ ThemeIdle /\ CopyIdle /\ BuildIdle
    /\ \E present \in SUBSET DialogIds : DialogStart(present)
    /\ \E script \in {"raw-toggle", "theme-switcher"}, host \in Hostnames,
          hasBtn \in BOOLEAN, ss \in InitialSheets :
          RawStart(script, host, hasBtn, ss)

WidgetNext ==
    \/ DlgScriptWhileLoading
    \/ DlgScriptAfterLoad
    \/ DlgDOMContentLoaded
    \/ OpenClick
    \/ CloseClick
    \/ \E target \in {"dialog", "content"} : DialogClick(target)
    \/ RawScriptWhileLoading
    \/ RawScriptAfterLoad
    \/ RawDOMContentLoaded
    \/ RawClick
    \/ \E kind \in SheetKinds : InsertStyle(kind)

WidgetSpec == WidgetInit /\ [][WidgetNext]_vars

\* Documents that lack some of the elements the scripts look up: the theme
\* controller, the dialog and the raw/styled toggle on one page.
MissingInit ==
    /\ CopyIdle /\ BuildIdle
    /\ ThemeInit /\ origStored \in {Null, "dark"}
    /\ \E present \in SUBSET DialogIds : DialogStart(present)
    /\ \E script \in {"raw-toggle", "theme-switcher"}, hasBtn \in BOOLEAN :
          RawStart(script, "localhost", hasBtn, <<[kind |-> "link", disabled |-> FALSE]>>)

MissingNext ==
    \/ ScriptWhileLoading
    \/ ScriptAfterLoad
    \/ DOMContentLoaded
    \/ \E o \in {"dark"} : SelectChange(o)
    \/ \E t \in {"light"} : ButtonClick(t)
    \/ DlgScriptWhileLoading
    \/ DlgScriptAfterLoad
    \/ DlgDOMContentLoaded
    \/ OpenClick
    \/ CloseClick
    \/ RawScriptWhileLoading
    \/ RawScriptAfterLoad
    \/ RawDOMContentLoaded
    \/ RawClick

MissingSpec == MissingInit /\ [][MissingNext]_vars

\* The whole demo page: the theme controller, the copy buttons, the dialog and
\* the raw/styled toggle in one document that has all their elements. Each code
\* block's button is clicked at most once in total.
PageInit ==
    /\ BuildIdle
    /\ ThemeInit /\ origStored = "dark" /\ ControlsPresent
    /\ CopyIdle
    /\ DialogIdle
    /\ RawStart("raw-toggle", "localhost", TRUE, <<[kind |-> "link", disabled |-> FALSE]>>)

PageNext ==
    \/ ScriptWhileLoading
    \/ ScriptAfterLoad
    \/ DOMContentLoaded
    \/ \E o \in SelectOptions : SelectChange(o)
    \/ \E t \in Themes : ButtonClick(t)
    \/ CopyScriptWhileLoading
    \/ CopyScriptAfterLoad
    \/ CopyDOMContentLoaded
    \/ clicks = 0 /\ \E b \in Blocks : CopyClick(b)
    \/ WriteResolves(1)
    \/ WriteRejects(1)
    \/ Tick
    \/ TimerFires
    \/ DlgScriptWhileLoading
    \/ DlgScriptAfterLoad
    \/ DlgDOMContentLoaded
    \/ OpenClick
    \/ CloseClick
    \/ DialogClick("dialog")
    \/ RawScriptWhileLoading
    \/ RawScriptAfterLoad
    \/ RawDOMContentLoaded
    \/ RawClick

PageSpec == PageInit /\ [][PageNext]_vars

\* The copy buttons with the pointer moving over the code blocks.
HoverNext ==
    \/ CopyScriptWhileLoading
    \/ CopyScriptAfterLoad
    \/ CopyDOMContentLoaded
    \/ \E b \in Blocks : WrapperMouseEnter(b)
    \/ \E b \in Blocks : WrapperMouseLeave(b)
    \/ \E b \in Blocks : ButtonMouseEnter(b)
    \/ \E b \in Blocks : CopyClick(b)
    \/ \E i \in 1..MaxClicks : WriteResolves(i)
    \/ \E i \in 1..MaxClicks : WriteRejects(i)
    \/ Tick
    \/ TimerFires

HoverSpec == CopyInit /\ [][HoverNext]_vars

\* the build scripts alone
BuildInit ==
    /\ ThemeIdle /\ CopyIdle /\ DialogIdle /\ RawIdle
    /\ \E script \in BuildScripts, light \in LightFiles, dark \in DarkFiles,
          b \in BaseFiles, html \in HTMLFiles :
          BuildStart(script, light, dark, b, html)

BuildNext ==
    \/ BuildMkdir
    \/ BuildRead
    \/ BuildReadFails
    \/ WriteStylesheets
    \/ BuildHTML
    \/ BuildHTMLFails
    \/ BuildThemeSwitcher
    \/ BuildThemeSwitcherFails

BuildSpec == BuildInit /\ [][BuildNext]_vars

----------------------------------------------------------------------------
(* Theme state controller: properties *)

\* the marker apply(t) leaves on the document root
MarkerOf(t) == IF t = "auto" THEN "none" ELSE t

\* the theme of the most recent setTheme call of the most recent handler
LastCall == applyCalls[Len(applyCalls)]

\* C1: persistence round trip. When a page session whose last setTheme call was
\* setTheme(t) is followed by a fresh page session that runs init() against the
\* same storage, the document's theme override after init() is the one the
\* session before had when it ended, which is the one setTheme(t) produces
\* (dark, light, or none for auto).
C1_RoundTrip ==
    (lastOp = "init" /\ carried.theme /= "none")
        => /\ Override = carried.marker
           /\ Override = MarkerOf(carried.theme)

C1_Witness ==
    /\ lastOp = "init"
    /\ carried.theme = "dark"
    /\ Override = "dark"
    /\ variant = "attr"

\* C2: after a handler that called setTheme(t), whatever the state before it:
\* t = auto leaves no entry under key "theme" (and "auto" is never stored),
\* t = light / dark leaves the entry equal to exactly that string.
C2_PersistLiteral ==
    applyCalls /= <<>>
        => IF LastCall = "auto"
           THEN "theme" \notin DOMAIN localStorage
           ELSE /\ "theme" \in DOMAIN localStorage
                /\ localStorage["theme"] = LastCall
                /\ LastCall \in {"light", "dark"}

C2_Witness ==
    /\ lastOp = "change"
    /\ LastCall = "auto"
    /\ lsBefore = "blue"
    /\ "theme" \notin DOMAIN localStorage

\* C3: mutual consistency. On a page that has its theme controls, starting with
\* the entry absent, "light" or "dark", in every state after init() the three
\* views agree: storage holds t iff the document override is t iff the control
\* shows t, for t = dark and t = light; and storage has no entry iff the
\* document has no override iff the control shows auto.
C3_Consistent ==
    (origStored \in {Null, "light", "dark"} /\ pc = "ready" /\ ControlsPresent)
        => /\ \A t \in {"light", "dark"} :
                /\ (Stored = t) <=> (Override = t)
                /\ (Override = t) <=> (ActiveControls = {t})
           /\ (Stored = Null) <=> (Override = "none")
           /\ (Override = "none") <=> (ActiveControls = {"auto"})
           /\ Stored \in {Null, "light", "dark"}

C3_Witness ==
    /\ pc = "ready"
    /\ variant = "inline"
    /\ elements = Themes
    /\ origStored = "light"
    /\ lastOp = "click"
    /\ Stored = "dark"
    /\ Override = "dark"
    /\ ActiveControls = {"dark"}

\* C4: immediately after a handler that called setTheme(t), on a page that has
\* its theme controls, exactly one control is marked active (opacity "1" and
\* weight "600"; the select's value) and it is the control of t.
C4_OneActive ==
    (applyCalls /= <<>> /\ ControlsPresent)
        => /\ ActiveControls = {LastCall}
           /\ Cardinality(ActiveControls) = 1

C4_Witness ==
    /\ variant = "inline"
    /\ elements = Themes
    /\ lastOp = "click"
    /\ LastCall = "light"
    /\ lsBefore = "dark"
    /\ Active("light") /\ ~Active("dark") /\ ~Active("auto")

\* C5 (as stated): when the persisted value is "dark", init() sets the document
\* override to dark, marks the dark control active and makes no storage write.
C5_NoWriteOnDark ==
    (lastOp = "init" /\ savedRead = "dark")
        => /\ Override = "dark"
           /\ ControlsPresent => ActiveControls = {"dark"}
           /\ storageLog = <<>>

\* C5 (amended): when the persisted value is "dark", init() sets the document
\* override to dark, marks the dark control active, and its only storage call is
\* setItem("theme", "dark"), which stores the value already there: the entry is
\* unchanged.
C5_RewritesDark ==
    (lastOp = "init" /\ savedRead = "dark")
        => /\ Override = "dark"
           /\ ControlsPresent => ActiveControls = {"dark"}
           /\ storageLog = << <<"setItem", "theme", "dark">> >>
           /\ Stored = "dark"
           /\ lsBefore = "dark"

C5_Witness ==
    /\ lastOp = "init"
    /\ savedRead = "dark"
    /\ variant = "attr"
    /\ "select" \in elements
    /\ dataTheme = "dark"
    /\ selectValue = "dark"
    /\ Len(storageLog) = 1

\* C6: when init() runs with no entry under key "theme", the document ends with
\* no theme override, the auto control is shown active, and init() makes no
\* storage call (no write, no removal): the entry is still absent.
C6_NoEntry ==
    (lastOp = "init" /\ savedRead = Null)
        => /\ Override = "none"
           /\ ControlsPresent => ActiveControls = {"auto"}
           /\ storageLog = <<>>
           /\ applyCalls = <<>>
           /\ "theme" \notin DOMAIN localStorage

C6_Witness ==
    /\ lastOp = "init"
    /\ savedRead = Null
    /\ variant = "inline"
    /\ elements = Themes
    /\ rootStyle = Empty
    /\ Active("auto") /\ ~Active("light") /\ ~Active("dark")

\* C7: for a stored value outside {auto, light, dark} ("blue", the empty
\* string), init() leaves the document and the controls as it does with no
\* stored value: no theme override, the auto control active.
C7_InvalidAsAbsent ==
    (lastOp = "init" /\ savedRead \notin Themes \cup {Null})
        => /\ Override = "none"
           /\ ControlsPresent => ActiveControls = {"auto"}
           /\ applyCalls = <<>>

C7_Witness ==
    /\ lastOp = "init"
    /\ savedRead = "blue"
    /\ variant = "inline"
    /\ elements = Themes
    /\ Override = "none"
    /\ ActiveControls = {"auto"}

\* C8 (as stated): for every value the entry held before page load, once init()
\* has run the entry under "theme" is absent or exactly "light" or "dark".
C8_AlwaysRestricted ==
    pc = "ready" => Stored \in {Null, "light", "dark"}

\* C8 (amended): once init() has run, the entry under "theme" is absent or
\* exactly "light" or "dark", unless the entry held a value outside
\* {auto, light, dark} before the first page load and no theme control has been
\* used since: init() leaves such a value in place, and the first theme-control
\* interaction replaces or removes it.
C8_RestrictedOnceWritten ==
    pc = "ready"
        => \/ Stored \in {Null, "light", "dark"}
           \/ /\ ~interacted
              /\ Stored = origStored
              /\ origStored \notin Themes

C8_Witness ==
    /\ pc = "ready"
    /\ origStored = "blue"
    /\ interacted
    /\ lastOp = "init"
    /\ Stored = "light"

\* C9 (as stated): for every initial stored value, the entry under "theme" is
\* the same after init() as before it.
C9_InitKeepsEntry ==
    lastOp = "init" => Stored = lsBefore

\* C9 (amended): only a theme-control interaction changes the value of the
\* entry, with one exception: init() removes a stored literal "auto". For every
\* other initial value (absent included) the entry is the same after init() as
\* before it, and evaluating the script or reloading the page never changes it.
C9_InitKeepsEntryButAuto ==
    /\ lastOp = "init" =>
          IF savedRead = "auto" THEN Stored = Null ELSE Stored = lsBefore
    /\ lastOp \in {"script", "reload"} => Stored = lsBefore

C9_Witness ==
    /\ lastOp = "init"
    /\ savedRead = "light"
    /\ Stored = "light"
    /\ storageLog /= <<>>

----------------------------------------------------------------------------
(* Copy-button widget: properties *)

\* the revert timers pending for block b's button, by branch
PendingTimers(b, kind) ==
    {i \in DOMAIN timers : timers[i].block = b /\ timers[i].kind = kind}

\* the label of block b's copy button ("": the button is not injected yet)
Label(b) == IF b \in DOMAIN button THEN button[b].textContent ELSE ""

\* C10, what each step leaves: when a click's clipboard write resolves, the
\* clipboard holds exactly that block's text, the label reads "Copied!" and a
\* revert timer of 2000 ms has just been set; the label reads "Copied!" only
\* while such a timer is pending; and when that timer's callback runs, no
\* earlier than 2000 ms after it was set, the label reads "Copy".
C10_Steps ==
    /\ lastCopyOp.kind = "resolved" =>
          /\ clipboard = blockText[lastCopyOp.block]
          /\ button[lastCopyOp.block].textContent = "Copied!"
          /\ timers /= <<>>
          /\ timers[Len(timers)] = [block |-> lastCopyOp.block, kind |-> "copied",
                                    delay |-> 2000, age |-> 0]
    /\ \A b \in DOMAIN button :
          /\ button[b].textContent \in {"Copy", "Copied!", "Failed"}
          /\ button[b].textContent = "Copied!" => PendingTimers(b, "copied") /= {}
    /\ (lastCopyOp.kind = "timer" /\ lastCopyOp.text = "copied") =>
          /\ button[lastCopyOp.block].textContent = "Copy"
          /\ lastCopyOp.age >= 2000

\* C10: clicking a block's copy button while the clipboard write succeeds puts
\* exactly that block's text on the clipboard and moves the label from "Copy"
\* to "Copied!" and, once the 2-second delay has elapsed, back to "Copy".
C10_CopyFeedback ==
    /\ []C10_Steps
    /\ \A b \in Blocks :
          (Label(b) = "Copied!") ~> (Label(b) = "Copy")

C10_Witness ==
    /\ lastCopyOp.kind = "timer"
    /\ lastCopyOp.text = "copied"
    /\ lastCopyOp.block = 1
    /\ blockText[1] = "hello()"
    /\ clipboard = "hello()"
    /\ button[1].textContent = "Copy"
    /\ clicks = 1

\* C11, what each step leaves: when a click's clipboard write rejects, the
\* handler's catch branch takes the failure (nothing is thrown out of the
\* handler), the label reads "Failed", the "copied" class is as it was before
\* (not added) and a revert timer of 2000 ms has just been set; the label reads
\* "Failed" only while such a timer is pending; and when that timer's callback
\* runs, no earlier than 2000 ms after it was set, the label reads "Copy".
C11_Steps ==
    /\ lastCopyOp.kind = "rejected" =>
          /\ ~lastCopyOp.thrown
          /\ button[lastCopyOp.block].textContent = "Failed"
          /\ button[lastCopyOp.block].copied = lastCopyOp.copiedBefore
          /\ timers /= <<>>
          /\ timers[Len(timers)] = [block |-> lastCopyOp.block, kind |-> "failed",
                                    delay |-> 2000, age |-> 0]
    /\ \A b \in DOMAIN button :
          button[b].textContent = "Failed" => PendingTimers(b, "failed") /= {}
    /\ (lastCopyOp.kind = "timer" /\ lastCopyOp.text = "failed") =>
          /\ button[lastCopyOp.block].textContent = "Copy"
          /\ button[lastCopyOp.block].copied = lastCopyOp.copiedBefore
          /\ lastCopyOp.age >= 2000

\* C11: a clipboard write that fails after a copy-button click is caught inside
\* the click handler and never propagates: the label becomes "Failed", the
\* "copied" class is not added, and the label reverts to "Copy" after the
\* 2-second delay.
C11_FailureFeedback ==
    /\ []C11_Steps
    /\ \A b \in Blocks : (Label(b) = "Failed") ~> (Label(b) = "Copy")

C11_Witness ==
    /\ lastCopyOp.kind = "timer"
    /\ lastCopyOp.text = "failed"
    /\ lastCopyOp.block = 2
    /\ button[2].textContent = "Copy"
    /\ ~button[2].copied
    /\ clipboard = OtherText
    /\ clicks = 1


----------------------------------------------------------------------------
(* Dialog *)

\* C12: once the dialog script has initialised, a click on the open trigger
\* leaves the dialog open; while it is open, a click whose target is the dialog
\* element itself (its backdrop) or the close control closes it, and a click
\* whose target is another descendant of the dialog leaves it open.
C12_Dialog ==
    (dlgPc = "ready" /\ lastDlgOp.kind = "click" /\ "dialog" \in dlgElements) =>
        /\ lastDlgOp.target = "open" => dialogOpen
        /\ (lastDlgOp.target \in {"dialog", "close"} /\ lastDlgOp.openBefore) => ~dialogOpen
        /\ (lastDlgOp.target = "content" /\ lastDlgOp.openBefore) => dialogOpen

\* the open dialog was clicked on a descendant other than the close control and is still shown
C12_Witness ==
    /\ dlgPc = "ready" /\ dlgElements = DialogIds
    /\ lastDlgOp.kind = "click" /\ lastDlgOp.target = "content" /\ lastDlgOp.openBefore
    /\ dialogOpen

----------------------------------------------------------------------------
(* Raw/styled toggle *)

\* C13: on a development host, after n clicks on the toggle every link and
\* style element found at initialisation is disabled exactly when n is odd, and
\* the button reads "Show Styled" exactly when n is odd, "Raw HTML" otherwise.
C13_Parity ==
    (hostname \in DevHosts /\ rawBtn.present) =>
        /\ \A i \in allStyles : sheets[i].disabled <=> (rawClicks % 2 = 1)
        /\ rawBtn.textContent = (IF rawClicks % 2 = 1 THEN "Show Styled" ELSE "Raw HTML")

\* two clicks on a development host restored the styled state of a document with sheets
C13_Witness ==
    /\ hostname = "127.0.0.1" /\ rawBtn.present /\ rawPc = "ready"
    /\ rawClicks = 2 /\ lastRawOp.kind = "click"
    /\ allStyles /= {} /\ \A i \in allStyles : ~sheets[i].disabled
    /\ rawBtn.textContent = "Raw HTML"

\* C14: on a host other than localhost and 127.0.0.1, once the toggle is
\* initialised its button is hidden, it has no click listener, and no sheet is
\* disabled, whatever was clicked.
C14_Restricted ==
    (hostname \notin DevHosts /\ rawBtn.present /\ rawPc = "ready") =>
        /\ rawBtn.display = "none"
        /\ rawListeners = 0
        /\ \A i \in DOMAIN sheets : ~sheets[i].disabled

----------------------------------------------------------------------------
(* Missing elements *)

\* C15: a missing element disables its widget without an error: with no theme
\* control, init() completes and no listener is attached; with no dialog
\* element, a click on the open or close trigger changes nothing and throws
\* nothing; with no #toggle-raw, initRawToggle returns without any effect.
C15_MissingElements ==
    /\ (elements = {} /\ pc = "ready") =>
          /\ \A c \in DOMAIN listeners : listeners[c] = 0
          /\ lastOp = "init"
    /\ ("dialog" \notin dlgElements /\ lastDlgOp.kind = "click") =>
          /\ ~lastDlgOp.threw
          /\ dialogOpen = lastDlgOp.openBefore
          /\ ~dialogOpen
    /\ (~rawBtn.present /\ rawPc = "ready") =>
          /\ lastRawOp.kind = "init" /\ ~lastRawOp.threw
          /\ rawBtn = NoElement
          /\ rawListeners = 0 /\ allStyles = {} /\ ~isRaw
          /\ \A i \in DOMAIN sheets : ~sheets[i].disabled

\* a document with no theme button, no dialog and no #toggle-raw: init() applied
\* the stored theme, the open trigger was clicked, initRawToggle returned
C15_Witness ==
    /\ variant = "inline" /\ elements = {} /\ pc = "ready" /\ rootStyle = darkTheme
    /\ dlgElements = {"open", "close"} /\ dlgPc = "ready"
    /\ lastDlgOp.kind = "click" /\ lastDlgOp.target = "open" /\ ~dialogOpen
    /\ ~rawBtn.present /\ rawPc = "ready"

----------------------------------------------------------------------------
(* The marker each theme leaves on the document root *)

\* C16: in the button variant, after a click on #btn-dark (resp. #btn-light),
\* whatever was clicked before, the root's inline style holds the dark (resp.
\* light) table's value for every themed custom property, and --background-body
\* is "#000000" (resp. "#ffffff").
C16_ButtonTables ==
    (variant = "inline" /\ lastOp = "click" /\ LastCall \in {"light", "dark"}) =>
        LET table == IF LastCall = "dark" THEN darkTheme ELSE lightTheme
        IN  /\ \A k \in DOMAIN table : k \in DOMAIN rootStyle /\ rootStyle[k] = table[k]
            /\ "--background-body" \in DOMAIN rootStyle
            /\ rootStyle["--background-body"] =
                  (IF LastCall = "dark" THEN "#000000" ELSE "#ffffff")

\* #btn-dark was clicked in a session that had clicked another theme before
C16_Witness ==
    /\ variant = "inline" /\ lastOp = "click" /\ LastCall = "dark"
    /\ sessionTheme = "dark" /\ interacted
    /\ Stored = "dark" /\ origStored = "light"
    /\ rootStyle["--background-body"] = "#000000"

\* C17: after a handler applied theme t, the root's data-theme attribute is t
\* for light and dark and is absent for auto; so it is "dark" after the dark
\* control was used.
C17_DataTheme ==
    (lastOp \in {"init", "change", "click"} /\ applyCalls /= <<>>) =>
        dataTheme = (IF LastCall = "auto" THEN Null ELSE LastCall)

----------------------------------------------------------------------------
(* Build output *)

OutStylesheets == {"out/juice.css", "out/juice-light.css", "out/juice-dark.css"}

\* C18: a build run that completed has written out/juice.css,
\* out/juice-light.css and out/juice-dark.css.
C18_Stylesheets == buildPc = "done" => OutStylesheets \subseteq DOMAIN written

\* a run of scripts/build.ts completed on source files that are not empty
C18_Witness ==
    /\ buildPc = "done" /\ buildScript = "bun-native"
    /\ OutStylesheets \subseteq DOMAIN written
    /\ lightVars /= <<>> /\ darkVars /= <<>> /\ base /= <<>>

\* C19: a build run that completed has written out/index.html.
C19_DemoPage == buildPc = "done" => "out/index.html" \in DOMAIN written

\* number of occurrences of token t in str
Count(t, str) == Cardinality({i \in DOMAIN str : str[i] = t})

\* body is the text dark, as it is or with every line that is not empty
\* indented by one tab
CarriesDark(body, dark) ==
    \/ body = dark
    \/ LET lines == split(body)
       IN  /\ \A i \in DOMAIN lines : lines[i] /= <<>> => lines[i][1] = TAB
           /\ join([i \in DOMAIN lines |->
                       IF lines[i] /= <<>> THEN Tail(lines[i]) ELSE lines[i]]) = dark

\* C20: once the bundles are written, and apart from a header comment in front:
\* the light bundle is the light variable file followed by the base stylesheet
\* and holds nothing else but the separating newlines, so nothing of the dark
\* file; the dark bundle is the dark variable file followed by the base
\* stylesheet; the auto bundle is the light variables, then one
\* "@media (prefers-color-scheme: dark) {" ... "}" block around the dark
\* variables, then the base stylesheet, and that block is the only such media
\* query the bundle has beyond those of its source files.
C20_Bundles ==
    OutStylesheets \subseteq DOMAIN written =>
        \E h \in {<<>>, header} :
            LET auto == written["out/juice.css"]
                pre == h \o lightVars \o <<NL, NL, MEDIA, "{", NL>>
                post == <<NL, "}", NL, NL>> \o base
                body == SubSeq(auto, Len(pre) + 1, Len(auto) - Len(post))
            IN  /\ written["out/juice-light.css"] = h \o lightVars \o <<NL, NL>> \o base
                /\ written["out/juice-dark.css"] = h \o darkVars \o <<NL, NL>> \o base
                /\ Len(auto) >= Len(pre) + Len(post)
                /\ auto = pre \o body \o post
                /\ CarriesDark(body, darkVars)
                /\ Count(MEDIA, auto) =
                      1 + Count(MEDIA, lightVars) + Count(MEDIA, darkVars) + Count(MEDIA, base)

\* scripts/build.ts wrote an auto bundle whose media block holds the line of
\* the dark file, indented by one tab
C20_Witness ==
    /\ buildScript = "bun-native" /\ buildPc = "done"
    /\ lightVars = <<"l", NL>> /\ base = <<"b", "{", "}">>
    /\ Len(darkVars) = MaxLen /\ darkVars[1] = "d" /\ darkVars[MaxLen] = "}"
    /\ written["out/juice.css"] =
          lightVars \o <<NL, NL, MEDIA, "{", NL, TAB>> \o darkVars \o <<NL, "}", NL, NL>> \o base

\* str has as many "{" as "}"
Balanced(str) == Count("{", str) = Count("}", str)

\* C21: when the light variable file, the dark variable file and the base
\* stylesheet each have as many "{" as "}", so has each of the three
\* stylesheets the build wrote.
C21_BraceBalance ==
    (OutStylesheets \subseteq DOMAIN written
        /\ Balanced(lightVars) /\ Balanced(darkVars) /\ Balanced(base)) =>
        \A path \in OutStylesheets : Balanced(written[path])

\* balanced source files with braces in each of them went through scripts/build.ts
C21_Witness ==
    /\ buildScript = "bun-bundler" /\ buildPc = "done"
    /\ lightVars = <<"{", "l", "}">> /\ darkVars = <<"{", "}">> /\ Count("{", base) = 1
    /\ Count("{", written["out/juice.css"]) = 4
    /\ Count("}", written["out/juice.css"]) = 4

----------------------------------------------------------------------------
(* Independence of the widgets *)

\* what the theme controller maintains: the stored entry, the marker on the
\* document root, the state of the theme controls
ThemeState == <<localStorage, dataTheme, rootStyle, selectValue, btnStyle>>

\* the label of every copy button
CopyLabels == [b \in DOMAIN button |-> button[b].textContent]

\* C22: a step of the copy buttons, the dialog or the raw/styled toggle leaves
\* the stored theme, the theme marker on the document root and the theme
\* controls as they were; a step of the theme controller leaves the dialog's
\* open state, every copy button's label and the raw/styled flag as they were.
C22_NoInteraction ==
    [][/\ (copyVars' /= copyVars \/ dialogVars' /= dialogVars \/ rawVars' /= rawVars)
            => ThemeState' = ThemeState
       /\ (themeVars' /= themeVars)
            => (dialogOpen' = dialogOpen /\ CopyLabels' = CopyLabels /\ isRaw' = isRaw)]_vars

\* every widget has acted: a theme was chosen, a copy succeeded, the dialog is
\* open, the page is raw
C22_Witness ==
    /\ pc = "ready" /\ interacted /\ Stored = "light" /\ Override = "light"
    /\ copyPc = "ready" /\ button[1].textContent = "Copied!"
    /\ dialogOpen
    /\ isRaw /\ sheets[1].disabled

----------------------------------------------------------------------------
(* Properties of setTheme *)

\* C23: after setTheme("auto") the document root carries no theme override: in
\* the button variant no custom property of an earlier setTheme("light") or
\* setTheme("dark") is left in the inline style (the removal goes through the
\* light table's keys, which are also the dark table's keys); in the select
\* variant data-theme is absent.
C23_AutoClearsOverride ==
    /\ DOMAIN lightTheme = DOMAIN darkTheme
    /\ (lastOp \in {"init", "change", "click"} /\ applyCalls /= <<>> /\ LastCall = "auto") =>
          /\ variant = "inline" =>
                \A k \in DOMAIN lightTheme \cup DOMAIN darkTheme : k \notin DOMAIN rootStyle
          /\ variant = "attr" => dataTheme = Null
          /\ Override = "none"

\* #btn-auto was clicked on a page whose init() had applied the stored dark theme
C23_Witness ==
    /\ variant = "inline" /\ origStored = "dark" /\ carried.theme \notin {"light", "auto"}
    /\ lastOp = "click" /\ LastCall = "auto"
    /\ rootStyle = Empty /\ Stored = Null

----------------------------------------------------------------------------
(* Revert timers of the copy buttons *)

\* every copy button reads "Copy" and has no "copied" class
AllReverted == \A b \in Blocks : b \in DOMAIN button /\ button[b].textContent = "Copy"
                                    /\ ~button[b].copied

\* C24, what a settled write leaves: a timer of 2000 ms for that button has
\* just been set, in the try branch and in the catch branch alike.
C24_Steps ==
    lastCopyOp.kind \in {"resolved", "rejected"} =>
        /\ timers /= <<>>
        /\ timers[Len(timers)].block = lastCopyOp.block
        /\ timers[Len(timers)].kind =
              (IF lastCopyOp.kind = "resolved" THEN "copied" ELSE "failed")
        /\ timers[Len(timers)].delay = 2000
        /\ timers[Len(timers)].age = 0

\* C24: every click whose clipboard write settles, with success or failure,
\* starts a 2-second timer; and once the buttons exist the page reaches a point
\* from which every label reads "Copy" and no button has the "copied" class.
C24_TimerUnconditional ==
    /\ []C24_Steps
    /\ [](copyPc = "ready" => <>[]AllReverted)

\* all clicks were made, a write succeeded, the last timer to run was one of a
\* failed write, and every button is back to "Copy"
C24_Witness ==
    /\ clicks = MaxClicks /\ pending = <<>> /\ timers = <<>>
    /\ clipboard /= OtherText
    /\ lastCopyOp.kind = "timer" /\ lastCopyOp.text = "failed"
    /\ AllReverted

\* C25: after a clipboard write succeeded, the button reads "Copied!" until
\* 2000 ms have passed since that write: as long as the timer that write set
\* has not waited its delay, the label is "Copied!", whatever other clicks and
\* timers of the same button do.
C25_FullDuration ==
    \A i \in DOMAIN timers :
        (timers[i].kind = "copied" /\ timers[i].age < timers[i].delay) =>
            Label(timers[i].block) = "Copied!"

FreshEnv ==
    [Env EXCEPT !.ls = Empty, !.dataTheme = Null, !.rootStyle = Empty,
                !.selectValue = IF "select" \in elements THEN "auto" ELSE "",
                !.btnStyle = [t \in DOMAIN btnStyle |-> [opacity |-> "", fontWeight |-> ""]]]

\* C27: after a handler whose last setTheme call was setTheme(t), whatever was
\* applied before, the storage entry, the marker on the document root and the
\* state of the controls are those setTheme(t) alone produces on a fresh page.
C27_LastCallWins ==
    (lastOp \in {"init", "change", "click"} /\ applyCalls /= <<>>) =>
        LET alone == IF variant = "attr" THEN setTheme(LastCall, FreshEnv)
                                         ELSE setThemeInline(LastCall, FreshEnv)
        IN  /\ localStorage = alone.ls
            /\ dataTheme = alone.dataTheme
            /\ rootStyle = alone.rootStyle
            /\ selectValue = alone.selectValue
            /\ btnStyle = alone.btnStyle

\* #btn-light was clicked after another theme had been applied and stored
C27_Witness ==
    /\ variant = "inline" /\ ControlsPresent
    /\ lastOp = "click" /\ LastCall = "light" /\ lsBefore = "dark"
    /\ rootStyle = lightTheme /\ Active("light") /\ ~Active("dark")

----------------------------------------------------------------------------
(* The two implementations side by side *)

\* the theme override the second document's root carries
TwinOverride ==
    CASE twin.rootStyle = Empty -> "none"
      [] twin.rootStyle = lightTheme -> "light"
      [] twin.rootStyle = darkTheme -> "dark"
      [] OTHER -> "other"

\* the buttons of the second document that are marked active
TwinActive ==
    {t \in DOMAIN twin.btnStyle :
        twin.btnStyle[t].opacity = "1" /\ twin.btnStyle[t].fontWeight = "600"}

\* C28: the select implementation and the button implementation, started on
\* the same stored value and given the same init() and setTheme operations,
\* hold the same storage entry after every step, and after every init() and
\* setTheme they mark the same control value active and carry the same theme
\* override on the root (dark, light or none).
C28_Equivalent ==
    /\ Stored = getItem(twin.ls, "theme")
    /\ lastOp \in {"init", "change"} =>
          /\ TwinActive = {selectValue}
          /\ Override = TwinOverride
          /\ Override \in {"dark", "light", "none"}

\* both documents, loaded with "light" stored, were switched to dark
C28_Witness ==
    /\ origStored = "light" /\ lastOp = "change" /\ LastCall = "dark"
    /\ dataTheme = "dark" /\ twin.rootStyle = darkTheme
    /\ selectValue = "dark" /\ TwinActive = {"dark"}
    /\ Stored = "dark" /\ twin.ls = localStorage

----------------------------------------------------------------------------
(* Bootstrap *)

\* C29: every widget's initialiser runs once per page load, whether its script
\* was evaluated while the document was loading (it then runs on
\* DOMContentLoaded) or afterwards (it then runs at once): before it ran no
\* control has a listener and no copy button exists; after it ran every control
\* has exactly one listener and every code block exactly one copy button, so
\* that one change or click makes one setTheme call and each click on the
\* raw/styled toggle flips it once.
C29_InitOnce ==
    /\ \A c \in elements : listeners[c] = (IF pc = "ready" THEN 1 ELSE 0)
    /\ \A b \in Blocks : injected[b] = (IF copyPc = "ready" THEN 1 ELSE 0)
    /\ \A id \in dlgElements : dlgListeners[id] = (IF dlgPc = "ready" THEN 1 ELSE 0)
    /\ rawListeners = (IF rawPc = "ready" THEN 1 ELSE 0)
    /\ lastOp \in {"change", "click"} => Len(applyCalls) = 1
    /\ isRaw <=> (rawClicks % 2 = 1)

\* all four initialisers have run; a theme was clicked and the toggle was clicked once
C29_Witness ==
    /\ pc = "ready" /\ copyPc = "ready" /\ dlgPc = "ready" /\ rawPc = "ready"
    /\ variant = "inline" /\ lastOp = "click" /\ applyCalls = <<"light">>
    /\ \A c \in Themes : listeners[c] = 1
    /\ rawListeners = 1 /\ rawClicks = 1 /\ isRaw
    /\ \A b \in Blocks : injected[b] = 1

----------------------------------------------------------------------------
(* Hover *)

\* C30: whenever the pointer is inside a code block's wrapper (after its
\* mouseenter, before its mouseleave), that block's copy button has opacity "1".
C30_ShownOnHover ==
    (pointer /= 0 /\ pointer \in DOMAIN button) => button[pointer].opacity = "1"
====
